---- MODULE Spec2Model ----
(***************************************************************************)
(* Verification model of CardDeck (src/src/main.rs): deck generation,      *)
(* dealing, poker hand evaluation, the derived order on HandRank and the   *)
(* winner resolution.                                                      *)
(***************************************************************************)
EXTENDS Integers, Sequences, FiniteSets, TLC

VARIABLES
  pc,              \* where the caller stands
  deck,            \* the deck a deal draws from (main's `deck`)
  cards_per_hand,  \* argument of deal_hands
  num_hands,       \* argument of deal_hands
  hands,           \* the hands dealt, the argument of determine_winner
  hand,            \* the argument of evaluate_hand
  rank,            \* the HandRank evaluate_hand returned last
  printed,         \* the ranks main has printed so far
  lhs, rhs,        \* the two HandRank values of a comparison
  ordering,        \* the Ordering the comparison returned
  outcome          \* how the last call ended: a return value or a panic

vars ==
  <<pc, deck, cards_per_hand, num_hands, hands, hand, rank, printed, lhs, rhs, ordering, outcome>>

(***************************************************************************)
(* Data model: Suit, Rank, Card                                            *)
(***************************************************************************)

\* enum Suit, in the order generate_deck lists the suits
Suits == <<"Spades", "Hearts", "Diamonds", "Clubs">>

\* enum Rank: Number(u8) | Jack | Queen | King | Ace  (n is 0 for the unit variants)
Number(n) == [tag |-> "Number", n |-> n]
Jack == [tag |-> "Jack", n |-> 0]
Queen == [tag |-> "Queen", n |-> 0]
King == [tag |-> "King", n |-> 0]
Ace == [tag |-> "Ace", n |-> 0]

\* struct Card { suit, rank }
Card(suit, r) == [suit |-> suit, rank |-> r]

\* Position of a Rank variant in the enum declaration (what the derived Ord compares first)
RankVariant(r) ==
  CASE r.tag = "Number" -> 0
    [] r.tag = "Jack" -> 1
    [] r.tag = "Queen" -> 2
    [] r.tag = "King" -> 3
    [] r.tag = "Ace" -> 4

\* Ordering of two integers (u8::cmp, usize::cmp)
IntCmp(a, b) == IF a < b THEN "Less" ELSE IF a > b THEN "Greater" ELSE "Equal"

\* #[derive(PartialOrd, Ord)] on Rank: variant position first, then the payload of Number
RankCmp(a, b) ==
  IF RankVariant(a) # RankVariant(b)
  THEN IntCmp(RankVariant(a), RankVariant(b))
  ELSE IntCmp(a.n, b.n)

\* fn rank_value
rank_value(r) ==
  CASE r.tag = "Number" -> r.n
    [] r.tag = "Jack" -> 11
    [] r.tag = "Queen" -> 12
    [] r.tag = "King" -> 13
    [] r.tag = "Ace" -> 14

(***************************************************************************)
(* generate_deck                                                           *)
(***************************************************************************)

\* The body of `for suit in suits`: Number(2..=10), then Jack, Queen, King, Ace
SuitCards(suit) ==
  [i \in 1..9 |-> Card(suit, Number(i + 1))]
    \o <<Card(suit, Jack), Card(suit, Queen), Card(suit, King), Card(suit, Ace)>>

\* A plausible slip: the exclusive range 2..10 drops the tens
generate_deck_exclusive_range ==
  LET perSuit(suit) ==
        [i \in 1..8 |-> Card(suit, Number(i + 1))]
          \o <<Card(suit, Jack), Card(suit, Queen), Card(suit, King), Card(suit, Ace)>>
  IN perSuit(Suits[1]) \o perSuit(Suits[2]) \o perSuit(Suits[3]) \o perSuit(Suits[4])

\* fn generate_deck
generate_deck ==
  SuitCards(Suits[1]) \o SuitCards(Suits[2]) \o SuitCards(Suits[3]) \o SuitCards(Suits[4])

(***************************************************************************)
(* evaluate_hand                                                           *)
(***************************************************************************)

\* enum HandRank, as [cat, payload]: payload is the sequence of the variant's fields
\* (the elements of the Vec<Rank> for HighCard and Flush)
HandRank(cat, payload) == [cat |-> cat, payload |-> payload]

Categories ==
  <<"HighCard", "OnePair", "TwoPair", "ThreeOfAKind", "Straight", "Flush",
    "FullHouse", "FourOfAKind", "StraightFlush", "RoyalFlush">>

RECURSIVE InsertDesc(_, _)
\* One insertion of the stable sort of `ranks.sort_by(|a, b| b.cmp(a))`:
\* r goes after every element that is not smaller than it
InsertDesc(sorted, r) ==
  IF sorted = <<>> THEN <<r>>
  ELSE IF RankCmp(Head(sorted), r) = "Less"
       THEN <<r>> \o sorted
       ELSE <<Head(sorted)>> \o InsertDesc(Tail(sorted), r)

RECURSIVE SortRanksDescFrom(_, _)
SortRanksDescFrom(sorted, rest) ==
  IF rest = <<>> THEN sorted
  ELSE SortRanksDescFrom(InsertDesc(sorted, Head(rest)), Tail(rest))

\* A plausible slip: the ranks are left in hand order
SortRanksDesc_unsorted(rs) == rs

\* ranks.sort_by(|a, b| b.cmp(a))
SortRanksDesc(rs) == SortRanksDescFrom(<<>>, rs)

RECURSIVE SortedDedupFrom(_, _)
SortedDedupFrom(acc, s) ==
  IF s = {} THEN acc
  ELSE LET m == CHOOSE v \in s : \A w \in s : v <= w
       IN SortedDedupFrom(Append(acc, m), s \ {m})

\* nums.sort_unstable(); nums.dedup(): the distinct values in ascending order
SortedDedup(values) == SortedDedupFrom(<<>>, {values[i] : i \in DOMAIN values})

\* let is_straight = { ... }
is_straight(ranks) ==
  LET nums == SortedDedup([i \in DOMAIN ranks |-> rank_value(ranks[i])])
  IN \/ \E w \in 1..(Len(nums) - 4) : nums[w + 4] = nums[w] + 4
     \/ nums = <<2, 3, 4, 5, 14>>

\* let is_flush = suits.iter().all(|s| s == &suits[0])
is_flush(suits) == \A i \in DOMAIN suits : suits[i] = suits[1]

\* Iteration orders of the HashMap `counts` that the model tries: the std HashMap
\* iterates in an unspecified order, a sample of which is enumerated. An order lists
\* the positions of the (at most five) keys
HashOrders == {<<1, 2, 3, 4, 5>>, <<5, 4, 3, 2, 1>>, <<3, 1, 5, 2, 4>>}

RECURSIVE DistinctFrom(_, _)
DistinctFrom(acc, rs) ==
  IF rs = <<>> THEN acc
  ELSE IF \E i \in DOMAIN acc : acc[i] = Head(rs)
       THEN DistinctFrom(acc, Tail(rs))
       ELSE DistinctFrom(Append(acc, Head(rs)), Tail(rs))

\* The HashMap built by `*counts.entry(r).or_insert(0) += 1` and read by
\* counts.iter().map(..).collect(): its (key, count) pairs, in iteration order `order`
Counts(ranks, order) ==
  LET keys == DistinctFrom(<<>>, ranks)
      count(r) == Cardinality({j \in DOMAIN ranks : ranks[j] = r})
      picks == SelectSeq(order, LAMBDA k : k <= Len(keys))
  IN [i \in DOMAIN picks |-> <<keys[picks[i]], count(keys[picks[i]])>>]

\* A plausible slip: the tie-break on the rank is left out
CountCmp_no_tiebreak(a, b) == IntCmp(b[2], a[2])

\* The comparator |a, b| b.1.cmp(&a.1).then_with(|| b.0.cmp(a.0))
CountCmp(a, b) ==
  IF IntCmp(b[2], a[2]) # "Equal" THEN IntCmp(b[2], a[2]) ELSE RankCmp(b[1], a[1])

RECURSIVE InsertCount(_, _)
\* One insertion of the stable sort: e goes before the first entry it compares Less than
InsertCount(sorted, e) ==
  IF sorted = <<>> THEN <<e>>
  ELSE IF CountCmp(e, Head(sorted)) = "Less"
       THEN <<e>> \o sorted
       ELSE <<Head(sorted)>> \o InsertCount(Tail(sorted), e)

RECURSIVE SortCountsFrom(_, _)
SortCountsFrom(sorted, rest) ==
  IF rest = <<>> THEN sorted
  ELSE SortCountsFrom(InsertCount(sorted, Head(rest)), Tail(rest))

\* count_vec after count_vec.sort_by(..)
count_vec(ranks, order) == SortCountsFrom(<<>>, Counts(ranks, order))

\* fn evaluate_hand; `order` is the iteration order of its HashMap
evaluate_hand(h, order) ==
  LET ranks == SortRanksDesc([i \in DOMAIN h |-> h[i].rank])
      suits == [i \in DOMAIN h |-> h[i].suit]
      flush == is_flush(suits)
      straight == is_straight(ranks)
      cv == count_vec(ranks, order)
      n == Len(cv)
  IN CASE n = 2 /\ cv[1][2] = 4 /\ cv[2][2] = 1 -> HandRank("FourOfAKind", <<cv[1][1]>>)
       [] n = 2 /\ cv[1][2] = 3 /\ cv[2][2] = 2 -> HandRank("FullHouse", <<cv[1][1], cv[2][1]>>)
       [] OTHER ->
          IF flush /\ straight /\ (\E i \in DOMAIN ranks : ranks[i] = Ace)
            THEN HandRank("RoyalFlush", <<>>)
          ELSE IF flush /\ straight
            THEN HandRank("StraightFlush", <<ranks[1]>>)
          ELSE IF n >= 1 /\ cv[1][2] = 3
            THEN HandRank("ThreeOfAKind", <<cv[1][1]>>)
          ELSE IF n >= 2 /\ cv[1][2] = 2 /\ cv[2][2] = 2
            THEN HandRank("TwoPair", <<cv[1][1], cv[2][1]>>)
          ELSE IF n >= 1 /\ cv[1][2] = 2
            THEN HandRank("OnePair", <<cv[1][1]>>)
          ELSE IF flush
            THEN HandRank("Flush", ranks)
          ELSE IF straight
            THEN HandRank("Straight", <<ranks[1]>>)
          ELSE HandRank("HighCard", ranks)

(***************************************************************************)
(* The derived order on HandRank                                           *)
(***************************************************************************)

\* A plausible slip: Straight and Flush declared in the other order
CategoryIndex_flush_below_straight(cat) ==
  LET swapped ==
        <<"HighCard", "OnePair", "TwoPair", "ThreeOfAKind", "Flush", "Straight",
          "FullHouse", "FourOfAKind", "StraightFlush", "RoyalFlush">>
  IN CHOOSE i \in DOMAIN swapped : swapped[i] = cat

\* Position of a HandRank variant in the enum declaration
CategoryIndex(cat) == CHOOSE i \in DOMAIN Categories : Categories[i] = cat

RECURSIVE RanksCmp(_, _)
\* Lexicographic comparison of the fields: Vec<Rank>::cmp, and field after field of a variant
RanksCmp(a, b) ==
  IF a = <<>> /\ b = <<>> THEN "Equal"
  ELSE IF a = <<>> THEN "Less"
  ELSE IF b = <<>> THEN "Greater"
  ELSE IF RankCmp(Head(a), Head(b)) # "Equal" THEN RankCmp(Head(a), Head(b))
  ELSE RanksCmp(Tail(a), Tail(b))

\* #[derive(PartialOrd, Ord)] on HandRank: variant position first, then the fields
HandRankCmp(a, b) ==
  IF CategoryIndex(a.cat) # CategoryIndex(b.cat)
  THEN IntCmp(CategoryIndex(a.cat), CategoryIndex(b.cat))
  ELSE RanksCmp(a.payload, b.payload)

(***************************************************************************)
(* Call results                                                            *)
(***************************************************************************)

NoOutcome == [kind |-> "None", value |-> 0, message |-> ""]
Returned(v) == [kind |-> "Returned", value |-> v, message |-> ""]
Panicked(msg) == [kind |-> "Panicked", value |-> 0, message |-> msg]
NoRank == HandRank("None", <<>>)

(***************************************************************************)
(* determine_winner                                                        *)
(***************************************************************************)

RECURSIVE InsertRanked_ties_last_first(_, _)
\* A plausible slip: an unstable insertion that puts a later equal hand first
InsertRanked_ties_last_first(sorted, e) ==
  IF sorted = <<>> THEN <<e>>
  ELSE IF HandRankCmp(Head(sorted)[2], e[2]) # "Greater"
       THEN <<e>> \o sorted
       ELSE <<Head(sorted)>> \o InsertRanked_ties_last_first(Tail(sorted), e)

RECURSIVE InsertRanked(_, _)
\* One insertion of the stable sort of ranked_hands.sort_by(|a, b| b.1.cmp(&a.1)):
\* e goes before the first entry whose HandRank is smaller
InsertRanked(sorted, e) ==
  IF sorted = <<>> THEN <<e>>
  ELSE IF HandRankCmp(Head(sorted)[2], e[2]) = "Less"
       THEN <<e>> \o sorted
       ELSE <<Head(sorted)>> \o InsertRanked(Tail(sorted), e)

RECURSIVE SortRankedFrom(_, _)
SortRankedFrom(sorted, rest) ==
  IF rest = <<>> THEN sorted
  ELSE SortRankedFrom(InsertRanked(sorted, Head(rest)), Tail(rest))

\* fn determine_winner: the 0-based index returned, or the panic of ranked_hands[0]
\* on an empty vector
determine_winner(hs, order) ==
  LET ranked_hands == [i \in DOMAIN hs |-> <<i - 1, evaluate_hand(hs[i], order)>>]
      sorted == SortRankedFrom(<<>>, ranked_hands)
  IN IF sorted = <<>>
     THEN Panicked("index out of bounds: the len is 0 but the index is 0")
     ELSE Returned(sorted[1][1])

(***************************************************************************)
(* deal_hands                                                              *)
(***************************************************************************)

RECURSIVE DealLoop_no_pop(_, _, _, _, _)
\* A plausible slip: the card is cloned from the top of the deck and never popped
DealLoop_no_pop(d, hs, i, total_needed, nh) ==
  IF i >= total_needed THEN [deck |-> d, hands |-> hs]
  ELSE DealLoop_no_pop(d, [hs EXCEPT ![(i % nh) + 1] = Append(@, d[Len(d)])],
                       i + 1, total_needed, nh)

RECURSIVE DealLoop(_, _, _, _, _)
\* for i in 0..total_needed { let card = deck.pop().unwrap(); hands[i % num_hands].push(card); }
DealLoop(d, hs, i, total_needed, nh) ==
  IF i >= total_needed THEN [deck |-> d, hands |-> hs]
  ELSE DealLoop(SubSeq(d, 1, Len(d) - 1),
                [hs EXCEPT ![(i % nh) + 1] = Append(@, d[Len(d)])],
                i + 1, total_needed, nh)

\* fn deal_hands with the permutation `perm` drawn by deck.shuffle(&mut rng):
\* the outcome, the deck left to the caller and the hands returned
\* (cards_per_hand * num_hands is a usize product; the arguments explored keep it far
\* below usize::MAX, so it is the exact product)
deal_hands(d, cph, nh, perm) ==
  LET total_needed == cph * nh
      shuffled == [i \in DOMAIN d |-> d[perm[i]]]
      dealt == DealLoop(shuffled, [k \in 1..nh |-> <<>>], 0, total_needed, nh)
  IN IF total_needed > Len(d)
     THEN [outcome |-> Panicked("Not enough cards in deck!"), deck |-> d, hands |-> <<>>]
     ELSE [outcome |-> Returned(nh), deck |-> dealt.deck, hands |-> dealt.hands]

(***************************************************************************)
(* Bounds of the model and the constants of main                           *)
(***************************************************************************)

\* deal_hands(&mut deck, 5, 4) in main
MainCardsPerHand == 5
MainNumHands == 4

\* Longest deck for which every shuffle permutation is enumerated, and the longest
\* prefix of the generated deck a deal is tried on
MaxDeck == 5
\* Largest cards_per_hand and num_hands tried on those decks
MaxCardsPerHand == 3
MaxNumHands == 3
\* Longest list of hands given to determine_winner
MaxHands == 4
\* Hands to evaluate are drawn from the cards of the first EvalSuits suits
EvalSuits == 2
\* Hands to reorder are drawn from the ranks Number(2)..Number(PermTop) and Ace, in two suits
PermTop == 6

(***************************************************************************)
(* Inputs                                                                  *)
(***************************************************************************)

RECURSIVE Gcd(_, _)
Gcd(a, b) == IF b = 0 THEN a ELSE Gcd(b, a % b)

\* The permutations deck.shuffle may draw: all of them for a short deck; for a longer
\* one the sample i -> s * i mod (n + 1), for every s coprime to n + 1
Shuffles(n) ==
  IF n <= MaxDeck
  THEN Permutations(1..n)
  ELSE {[i \in 1..n |-> (s * i) % (n + 1)] : s \in {t \in 1..n : Gcd(t, n + 1) = 1}}

\* The cards hands are drawn from when evaluate_hand is explored
EvalCards == SelectSeq(generate_deck, LAMBDA c : \E k \in 1..EvalSuits : c.suit = Suits[k])

\* The cards hands are drawn from when the order of the cards is explored
PermCards ==
  SelectSeq(generate_deck,
            LAMBDA c : /\ c.suit \in {Suits[1], Suits[2]}
                       /\ c.rank = Ace \/ (c.rank.tag = "Number" /\ c.rank.n <= PermTop))

\* Hands given to determine_winner: the hands of the specification's example
\* (a pair of kings, a flush, a straight, a high card) and hands that tie with them
\* or differ from them in the payload only
SampleHands ==
  LET S == "Spades" H == "Hearts" D == "Diamonds" C == "Clubs"
  IN { <<Card(S, King), Card(H, King), Card(D, Number(4)), Card(C, Number(7)), Card(S, Number(9))>>,
       <<Card(D, King), Card(C, King), Card(S, Number(2)), Card(H, Number(3)), Card(D, Number(5))>>,
       <<Card(H, Number(2)), Card(H, Number(6)), Card(H, Number(9)), Card(H, Jack), Card(H, King)>>,
       <<Card(C, King), Card(C, Jack), Card(C, Number(9)), Card(C, Number(6)), Card(C, Number(2))>>,
       <<Card(S, Number(5)), Card(H, Number(6)), Card(D, Number(7)), Card(C, Number(8)), Card(S, Number(9))>>,
       <<Card(S, Ace), Card(H, Queen), Card(D, Number(8)), Card(C, Number(5)), Card(S, Number(3))>>,
       <<Card(D, Number(10)), Card(D, Jack), Card(D, Queen), Card(D, King), Card(D, Ace)>> }

\* Ranks and rank vectors the HandRank values to compare are built from
OrdRanks == {Number(2), Number(10), Queen, King, Ace}
OrdVectors ==
  { <<Ace, King, Queen, Jack, Number(9)>>, <<Ace, King, Queen, Jack, Number(8)>>,
    <<King, Queen, Number(10), Number(3), Number(2)>>, <<King, Jack, Number(9), Number(6), Number(2)>>,
    <<Number(10), Number(8), Number(7), Number(4), Number(2)>>,
    <<Number(9), Number(8), Number(7), Number(6), Number(4)>> }

\* HandRank values of every variant
HandRankValues ==
  {HandRank(c, v) : c \in {"HighCard", "Flush"}, v \in OrdVectors}
    \cup {HandRank(c, <<r>>) :
            c \in {"OnePair", "ThreeOfAKind", "Straight", "FourOfAKind", "StraightFlush"},
            r \in OrdRanks}
    \cup {HandRank(c, <<r1, r2>>) : c \in {"TwoPair", "FullHouse"}, r1 \in OrdRanks, r2 \in OrdRanks}
    \cup {HandRank("RoyalFlush", <<>>)}

(***************************************************************************)
(* State machines                                                          *)
(***************************************************************************)

\* The state before anything is called
Idle ==
  /\ deck = <<>> /\ cards_per_hand = 0 /\ num_hands = 0 /\ hands = <<>>
  /\ hand = <<>> /\ rank = NoRank /\ printed = <<>>
  /\ lhs = NoRank /\ rhs = NoRank /\ ordering = "None" /\ outcome = NoOutcome

\* ---- main ---------------------------------------------------------------

Init == pc = "start" /\ Idle

\* let mut deck = generate_deck();
MainGenerate ==
  /\ pc = "start"
  /\ deck' = generate_deck
  /\ pc' = "generated"
  /\ UNCHANGED <<cards_per_hand, num_hands, hands, hand, rank, printed, lhs, rhs, ordering, outcome>>

\* let hands = deal_hands(&mut deck, 5, 4);
MainDeal ==
  /\ pc = "generated"
  /\ \E perm \in Shuffles(Len(deck)) :
       LET r == deal_hands(deck, MainCardsPerHand, MainNumHands, perm)
       IN /\ outcome' = r.outcome
          /\ deck' = r.deck
          /\ hands' = r.hands
          /\ pc' = IF r.outcome.kind = "Returned" THEN "dealt" ELSE "aborted"
  /\ cards_per_hand' = MainCardsPerHand
  /\ num_hands' = MainNumHands
  /\ UNCHANGED <<hand, rank, printed, lhs, rhs, ordering>>

\* One iteration of `for (i, hand) in hands.iter().enumerate()`: evaluate and print
MainPrint ==
  /\ pc = "dealt"
  /\ Len(printed) < Len(hands)
  /\ hand' = hands[Len(printed) + 1]
  /\ \E order \in HashOrders :
       /\ rank' = evaluate_hand(hand', order)
       /\ printed' = Append(printed, rank')
  /\ UNCHANGED <<pc, deck, cards_per_hand, num_hands, hands, lhs, rhs, ordering, outcome>>

\* let winner = determine_winner(&hands);
MainWinner ==
  /\ pc = "dealt"
  /\ Len(printed) = Len(hands)
  /\ \E order \in HashOrders :
       /\ outcome' = determine_winner(hands, order)
       /\ pc' = IF outcome'.kind = "Returned" THEN "done" ELSE "aborted"
  /\ UNCHANGED <<deck, cards_per_hand, num_hands, hands, hand, rank, printed, lhs, rhs, ordering>>

Next == MainGenerate \/ MainDeal \/ MainPrint \/ MainWinner

Spec == Init /\ [][Next]_vars

\* ---- deal_hands on its own ----------------------------------------------

InitDeal ==
  /\ pc = "ready"
  /\ hands = <<>> /\ hand = <<>> /\ rank = NoRank /\ printed = <<>>
  /\ lhs = NoRank /\ rhs = NoRank /\ ordering = "None" /\ outcome = NoOutcome
  /\ \/ /\ \E n \in 0..MaxDeck : deck = SubSeq(generate_deck, 1, n)
        /\ cards_per_hand \in 0..MaxCardsPerHand
        /\ num_hands \in 0..MaxNumHands
     \/ /\ deck = generate_deck
        /\ \E args \in {<<MainCardsPerHand, MainNumHands>>, <<14, 4>>} :
             cards_per_hand = args[1] /\ num_hands = args[2]

\* A call deal_hands(&mut deck, cards_per_hand, num_hands)
DealHands ==
  /\ pc = "ready"
  /\ \E perm \in Shuffles(Len(deck)) :
       LET r == deal_hands(deck, cards_per_hand, num_hands, perm)
       IN /\ outcome' = r.outcome
          /\ deck' = r.deck
          /\ hands' = r.hands
  /\ pc' = "returned"
  /\ UNCHANGED <<cards_per_hand, num_hands, hand, rank, printed, lhs, rhs, ordering>>

SpecDeal == InitDeal /\ [][DealHands]_vars

\* ---- evaluate_hand on its own -------------------------------------------

\* A hand of five cards of `cards`, duplicates allowed: one order of every multiset
HandOver(cards) ==
  \E a \in 1..Len(cards) : \E b \in a..Len(cards) : \E c \in b..Len(cards) :
    \E d \in c..Len(cards) : \E e \in d..Len(cards) :
      hand = <<cards[c], cards[a], cards[e], cards[b], cards[d]>>

InitEval ==
  /\ pc = "ready"
  /\ deck = <<>> /\ cards_per_hand = 0 /\ num_hands = 0 /\ hands = <<>>
  /\ rank = NoRank /\ printed = <<>>
  /\ lhs = NoRank /\ rhs = NoRank /\ ordering = "None" /\ outcome = NoOutcome
  /\ HandOver(EvalCards)

\* A call evaluate_hand(&hand)
EvaluateHand ==
  /\ pc \in {"ready", "reordered"}
  /\ \E order \in HashOrders : rank' = evaluate_hand(hand, order)
  /\ pc' = "evaluated"
  /\ UNCHANGED <<deck, cards_per_hand, num_hands, hands, hand, printed, lhs, rhs, ordering, outcome>>

SpecEval == InitEval /\ [][EvaluateHand]_vars

\* ---- evaluate_hand on the reordered hand --------------------------------

InitPerm ==
  /\ pc = "ready"
  /\ deck = <<>> /\ cards_per_hand = 0 /\ num_hands = 0 /\ hands = <<>>
  /\ rank = NoRank /\ printed = <<>>
  /\ lhs = NoRank /\ rhs = NoRank /\ ordering = "None" /\ outcome = NoOutcome
  /\ HandOver(PermCards)

\* The caller exchanges the cards at k and k + 1 of the hand it evaluated
Reorder(k) ==
  /\ pc = "evaluated"
  /\ hand' = [hand EXCEPT ![k] = hand[k + 1], ![k + 1] = hand[k]]
  /\ pc' = "reordered"
  /\ UNCHANGED <<deck, cards_per_hand, num_hands, hands, rank, printed, lhs, rhs, ordering, outcome>>

NextPerm == EvaluateHand \/ \E k \in 1..(Len(hand) - 1) : Reorder(k)

SpecPerm == InitPerm /\ [][NextPerm]_vars

\* ---- the comparison of two HandRank values ------------------------------

InitOrd ==
  /\ pc = "ready"
  /\ deck = <<>> /\ cards_per_hand = 0 /\ num_hands = 0 /\ hands = <<>>
  /\ hand = <<>> /\ rank = NoRank /\ printed = <<>>
  /\ ordering = "None" /\ outcome = NoOutcome
  /\ lhs \in HandRankValues
  /\ rhs \in HandRankValues

\* lhs.cmp(&rhs)
Compare ==
  /\ pc = "ready"
  /\ ordering' = HandRankCmp(lhs, rhs)
  /\ pc' = "returned"
  /\ UNCHANGED <<deck, cards_per_hand, num_hands, hands, hand, rank, printed, lhs, rhs, outcome>>

SpecOrd == InitOrd /\ [][Compare]_vars

\* ---- determine_winner on its own ----------------------------------------

InitWinner ==
  /\ pc = "ready"
  /\ deck = <<>> /\ cards_per_hand = 0 /\ num_hands = 0
  /\ hand = <<>> /\ rank = NoRank /\ printed = <<>>
  /\ lhs = NoRank /\ rhs = NoRank /\ ordering = "None" /\ outcome = NoOutcome
  /\ \E n \in 0..MaxHands : hands \in [1..n -> SampleHands]

\* A call determine_winner(&hands)
DetermineWinner ==
  /\ pc = "ready"
  /\ \E order \in HashOrders : outcome' = determine_winner(hands, order)
  /\ pc' = "returned"
  /\ UNCHANGED <<deck, cards_per_hand, num_hands, hands, hand, rank, printed, lhs, rhs, ordering>>

SpecWinner == InitWinner /\ [][DetermineWinner]_vars

(***************************************************************************)
(* Properties                                                              *)
(***************************************************************************)

\* The ranks of a hand and how often each occurs, read off the cards
RanksOf(h) == {h[i].rank : i \in DOMAIN h}
Occurrences(h, r) == Cardinality({i \in DOMAIN h : h[i].rank = r})
ValuesOf(h) == {rank_value(h[i].rank) : i \in DOMAIN h}
OneSuit(h) == \A i, j \in DOMAIN h : h[i].suit = h[j].suit
EvalAny(h) == {evaluate_hand(h, order) : order \in HashOrders}

\* C1: for a non-empty list of hands determine_winner returns an index whose HandRank
\* is greater than or equal to that of every hand, and the lowest such index
WinnerIsLowestMaximal ==
  (pc = "returned" /\ hands # <<>>) =>
    /\ outcome.kind = "Returned"
    /\ outcome.value + 1 \in DOMAIN hands
    /\ \A j \in DOMAIN hands :
         \A best \in EvalAny(hands[outcome.value + 1]), other \in EvalAny(hands[j]) :
           /\ HandRankCmp(best, other) # "Less"
           /\ j < outcome.value + 1 => HandRankCmp(other, best) = "Less"

\* C1 witness: two flushes of equal HandRank at indices 1 and 3, index 1 returned
WinnerWitness ==
  /\ pc = "returned"
  /\ Len(hands) = 4
  /\ hands[1][1] = Card("Spades", Number(5))
  /\ hands[2][1] = Card("Clubs", King)
  /\ hands[3][1] = Card("Spades", King)
  /\ hands[4][1] = Card("Hearts", Number(2))
  /\ outcome = Returned(1)

\* C2: the payload of Straight is the high card of the straight: the largest rank of
\* five consecutive values, and Number(5) for Ace, 2, 3, 4, 5
StraightPayloadIsHighCard ==
  (pc = "evaluated" /\ rank.cat = "Straight") =>
    IF ValuesOf(hand) = {14, 2, 3, 4, 5}
    THEN rank.payload = <<Number(5)>>
    ELSE /\ Len(rank.payload) = 1
         /\ rank.payload[1] \in RanksOf(hand)
         /\ \A v \in ValuesOf(hand) : v <= rank_value(rank.payload[1])

\* C3: RoyalFlush exactly for five cards of one suit with the ranks 10, Jack, Queen,
\* King, Ace; Ace, 2, 3, 4, 5 of one suit is StraightFlush(Number(5))
RoyalFlushIffTenToAce ==
  pc = "evaluated" =>
    /\ rank.cat = "RoyalFlush" <=>
         (OneSuit(hand) /\ RanksOf(hand) = {Number(10), Jack, Queen, King, Ace})
    /\ (OneSuit(hand) /\ RanksOf(hand) = {Ace, Number(2), Number(3), Number(4), Number(5)})
         => rank = HandRank("StraightFlush", <<Number(5)>>)

\* The categories from worst to best, as the specification lists them
ClaimedCategories ==
  <<"HighCard", "OnePair", "TwoPair", "ThreeOfAKind", "Straight", "Flush",
    "FullHouse", "FourOfAKind", "StraightFlush", "RoyalFlush">>
ClaimedIndex(h) == CHOOSE i \in DOMAIN ClaimedCategories : ClaimedCategories[i] = h.cat
\* p precedes q element by element in the order of the ranks
LexLess(p, q) ==
  \E k \in DOMAIN p :
    /\ k \in DOMAIN q
    /\ \A j \in 1..(k - 1) : p[j] = q[j]
    /\ rank_value(p[k]) < rank_value(q[k])
Reversed(o) == CASE o = "Less" -> "Greater" [] o = "Greater" -> "Less" [] OTHER -> o

\* C4: the comparison is lexicographic on (category, payload): the category decides
\* when the categories differ, the payloads element by element when they are equal,
\* and the relation is a transitive total order
OrderIsLexicographic ==
  pc = "returned" =>
    /\ ClaimedIndex(lhs) < ClaimedIndex(rhs) => ordering = "Less"
    /\ ClaimedIndex(lhs) > ClaimedIndex(rhs) => ordering = "Greater"
    /\ ClaimedIndex(lhs) = ClaimedIndex(rhs) =>
         ordering = IF LexLess(lhs.payload, rhs.payload) THEN "Less"
                    ELSE IF LexLess(rhs.payload, lhs.payload) THEN "Greater"
                    ELSE "Equal"
    /\ ordering = "Equal" <=> lhs = rhs
    /\ HandRankCmp(rhs, lhs) = Reversed(ordering)
    /\ \A other \in HandRankValues :
         (ordering = "Less" /\ HandRankCmp(rhs, other) = "Less")
           => HandRankCmp(lhs, other) = "Less"

\* C4 witness: FullHouse(King, 2) compared with FullHouse(Queen, Ace) is Greater
OrderWitness ==
  /\ pc = "returned"
  /\ lhs = HandRank("FullHouse", <<King, Number(2)>>)
  /\ rhs = HandRank("FullHouse", <<Queen, Ace>>)
  /\ ordering = "Greater"

\* C5: the rank multiplicities {4,1}, {3,2}, {3,1,1}, {2,2,1}, {2,1,1,1} give
\* FourOfAKind(quad), FullHouse(triple, pair), ThreeOfAKind(triple),
\* TwoPair(higher pair, lower pair) and OnePair(pair), whatever the suits
MultiplicitiesClassify ==
  pc = "evaluated" =>
    LET with(n) == {r \in RanksOf(hand) : Occurrences(hand, r) = n}
    IN /\ \A r \in with(4) : rank = HandRank("FourOfAKind", <<r>>)
       /\ \A r3 \in with(3), r2 \in with(2) : rank = HandRank("FullHouse", <<r3, r2>>)
       /\ \A r3 \in with(3) : with(2) = {} => rank = HandRank("ThreeOfAKind", <<r3>>)
       /\ \A hi \in with(2), lo \in with(2) :
            rank_value(hi) > rank_value(lo) => rank = HandRank("TwoPair", <<hi, lo>>)
       /\ \A r2 \in with(2) :
            (with(2) = {r2} /\ with(3) = {}) => rank = HandRank("OnePair", <<r2>>)

\* C5 witness: two pairs in five cards of one suit, evaluated
MultiplicitiesWitness ==
  /\ pc = "evaluated"
  /\ OneSuit(hand)
  /\ Occurrences(hand, King) = 2
  /\ Occurrences(hand, Number(2)) = 2
  /\ rank = HandRank("TwoPair", <<King, Number(2)>>)

\* C6: the HandRank of a hand does not change when its cards are reordered, nor from
\* one evaluation to the next
EvaluationIgnoresOrder ==
  pc = "reordered" => \A order \in HashOrders : evaluate_hand(hand, order) = rank

\* C6 witness: a hand evaluated again after its cards were moved
EvaluationOrderWitness ==
  /\ pc = "reordered"
  /\ hand = <<Card("Hearts", Ace), Card("Spades", Number(4)), Card("Spades", Number(2)),
              Card("Hearts", Number(4)), Card("Spades", Number(6))>>
  /\ rank = HandRank("OnePair", <<Number(4)>>)

RECURSIVE Flatten(_)
Flatten(ss) == IF ss = <<>> THEN <<>> ELSE Head(ss) \o Flatten(Tail(ss))

\* C7: a deal the deck can serve returns num_hands hands of cards_per_hand cards,
\* takes exactly cards_per_hand * num_hands cards off the deck, and every card of the
\* deck is afterwards in exactly one place: one hand, once, or the remaining deck
DealPartitionsDeck ==
  [][(pc = "ready" /\ cards_per_hand * num_hands <= Len(deck)) =>
       /\ outcome'.kind = "Returned"
       /\ Len(hands') = num_hands
       /\ \A k \in DOMAIN hands' : Len(hands'[k]) = cards_per_hand
       /\ Len(deck') = Len(deck) - cards_per_hand * num_hands
       /\ LET all == Flatten(hands') \o deck'
          IN /\ \A i, j \in DOMAIN all : i # j => all[i] # all[j]
             /\ {all[i] : i \in DOMAIN all} = {deck[i] : i \in DOMAIN deck}]_vars

\* C7 witness: five cards to each of four hands off the 52 cards, 32 left
DealWitness ==
  /\ pc = "returned"
  /\ outcome.kind = "Returned"
  /\ Len(hands) = 4
  /\ Len(hands[4]) = 5
  /\ Len(deck) = 32

\* C8: a deal for more cards than the deck holds is reported as an InsufficientCards
\* error value and leaves the deck as it was
InsufficientCardsIsReported ==
  [][(pc = "ready" /\ cards_per_hand * num_hands > Len(deck)) =>
       /\ outcome'.kind = "InsufficientCards"
       /\ deck' = deck]_vars

\* C9: determine_winner on an empty list fails with an EmptyInput error
EmptyInputIsReported ==
  (pc = "returned" /\ hands = <<>>) => outcome.kind = "EmptyInput"

\* C10: generate_deck returns 52 cards, each suit and rank exactly once, every Number
\* rank within 2..10
DeckIsComplete ==
  pc = "generated" =>
    LET ranks13 == {Number(n) : n \in 2..10} \cup {Jack, Queen, King, Ace}
        suits4 == {"Spades", "Hearts", "Diamonds", "Clubs"}
    IN /\ Len(deck) = 52
       /\ \A s \in suits4, r \in ranks13 :
            Cardinality({i \in DOMAIN deck : deck[i] = Card(s, r)}) = 1
       /\ \A i \in DOMAIN deck : deck[i].rank.tag = "Number" => deck[i].rank.n \in 2..10

\* C10 witness: the deck as generated, from the two of spades to the ace of clubs
DeckWitness ==
  /\ pc = "generated"
  /\ deck[1] = Card("Spades", Number(2))
  /\ deck[Len(deck)] = Card("Clubs", Ace)

====
